---- MODULE Spec2Model ----
(***************************************************************************)
(* Model of src/pipweline.py: a command-line ETL script that loads a       *)
(* semicolon-delimited CSV of hospital discharges into the SQLite table    *)
(* egresos_pacientes, skipping the load when the year taken from the file  *)
(* name is already present, and printing per-year row counts at the end.   *)
(*                                                                         *)
(* Text is modelled as a sequence of one-character strings, so that        *)
(* str.split, slicing, int(), getopt and the SQL expression that the year  *)
(* becomes are computed and not assumed.  A cell of a DataFrame or of the  *)
(* table is a record: StrCell(s) for text, IntCell(n) for an integer and   *)
(* Null for a missing value.  A float is held by the digits float.hex()    *)
(* writes, and its product with a column count is rounded as a double is.  *)
(***************************************************************************)
EXTENDS Integers, Sequences, FiniteSets, TLC

VARIABLES
    pc,            \* position of the running process in __main__
    run,           \* number of the current invocation of the script
    file_path,     \* __main__.file_path
    disk,          \* what the file system holds at file_path
    year,          \* __main__.year
    raw_data,      \* __main__.raw_data
    exists,        \* result of data_already_exists in this run
    table_exists,  \* whether egresos_pacientes has been created
    table_columns, \* its column names
    table_types,   \* the type declared for each of its columns
    table_rows,    \* its rows, in insertion order
    loaded_by,     \* ghost: for each row of the table, the run that appended it
    out,           \* messages printed by this run
    steps,         \* ghost: the functions this run has called, in order
    report,        \* the rows printed by validate_data in this run
    exit_code,     \* -1 while running, then the process exit status
    raised,        \* the function whose exception ended this run, or ""
    prev,          \* ghost: what the previous run was given and left behind
    p_in,          \* preprocess_data check: the DataFrame passed in
    p_thr,         \* preprocess_data check: the threshold passed in, a float
    p_out,         \* preprocess_data check: what the call produced
    path_parts     \* ghost: the <dir>, <name>, <YYYY> a checked path was built from

vars == <<pc, run, file_path, disk, year, raw_data, exists, table_exists,
          table_columns, table_types, table_rows, loaded_by, out, steps,
          report, exit_code, raised, prev, p_in, p_thr, p_out, path_parts>>

pipeline_vars == <<run, disk, raw_data, exists, table_exists, table_columns,
                   table_types, table_rows, loaded_by, out, steps, report,
                   exit_code, raised, prev>>

pre_vars == <<p_in, p_thr, p_out, path_parts>>

----------------------------------------------------------------------------
(* Bounds of the model *)

MaxRuns == 2        \* invocations of the script in one behaviour
MaxDirLen == 2      \* characters of a directory prefix
MaxNameLen == 2     \* characters of <name> in <name><YYYY>.csv
MaxPreRows == 2     \* rows of a DataFrame handed to preprocess_data
MaxStoredRows == 1  \* rows of a file saved before the existence check

----------------------------------------------------------------------------
(* Text *)

Min(a, b) == IF a < b THEN a ELSE b
Max(a, b) == IF a > b THEN a ELSE b

Digits == <<"0", "1", "2", "3", "4", "5", "6", "7", "8", "9">>

IsDigit(c) == \E i \in 1..Len(Digits) : Digits[i] = c

DigitVal(c) == (CHOOSE i \in 1..Len(Digits) : Digits[i] = c) - 1

\* the element of a set of one element; TheOne({F(x) : x \in {e}}) is F(e)
\* with e computed once
TheOne(S) == CHOOSE x \in S : TRUE

\* a non-empty run of ASCII digits
IsNumeric(s) == Len(s) > 0 /\ \A i \in 1..Len(s) : IsDigit(s[i])

UpperLetters ==
    <<"A", "B", "C", "D", "E", "F", "G", "H", "I", "J", "K", "L", "M",
      "N", "O", "P", "Q", "R", "S", "T", "U", "V", "W", "X", "Y", "Z">>

LowerLetters ==
    <<"a", "b", "c", "d", "e", "f", "g", "h", "i", "j", "k", "l", "m",
      "n", "o", "p", "q", "r", "s", "t", "u", "v", "w", "x", "y", "z">>

IsLower(c) == \E i \in 1..Len(LowerLetters) : LowerLetters[i] = c
IsLetter(c) == IsLower(c) \/ \E i \in 1..Len(UpperLetters) : UpperLetters[i] = c

\* str.upper() / SQLite's case folding of one ASCII character
Upper(c) ==
    IF IsLower(c)
    THEN UpperLetters[CHOOSE i \in 1..Len(LowerLetters) : LowerLetters[i] = c]
    ELSE c

UpperText(s) == [i \in 1..Len(s) |-> Upper(s[i])]

\* the characters of a string, which is how the model holds a column label
Chars(str) == [i \in 1..Len(str) |-> SubSeq(str, i, i)]

IsHexDigit(c) == IsDigit(c) \/ Upper(c) \in {"A", "B", "C", "D", "E", "F"}

HexVal(c) ==
    IF IsDigit(c) THEN DigitVal(c)
    ELSE 9 + (CHOOSE i \in 1..Len(UpperLetters) : UpperLetters[i] = Upper(c))

RECURSIVE Pow(_, _)
Pow(b, e) == IF e = 0 THEN 1 ELSE b * Pow(b, e - 1)

\* the value of a run of digits
RECURSIVE ParseInt(_)
ParseInt(s) ==
    IF Len(s) = 0 THEN 0
    ELSE 10 * ParseInt(SubSeq(s, 1, Len(s) - 1)) + DigitVal(s[Len(s)])

\* the value of a run of hexadecimal digits
RECURSIVE ParseHex(_)
ParseHex(s) ==
    IF Len(s) = 0 THEN 0
    ELSE 16 * ParseHex(SubSeq(s, 1, Len(s) - 1)) + HexVal(s[Len(s)])

\* str(n) for an integer n
RECURSIVE NatText(_)
NatText(n) ==
    IF n < 10 THEN <<Digits[n + 1]>>
    ELSE NatText(n \div 10) \o <<Digits[(n % 10) + 1]>>

IntText(n) == IF n < 0 THEN <<"-">> \o NatText(0 - n) ELSE NatText(n)

\* The characters that open a run of white space for SQLite's tokenizer:
\* blank, tab, line feed, carriage return and form feed.
SqlWhiteSpace == {" ", "\t", "\n", "\r", "\f"}

\* the vertical tab (code 11)
VerticalTab == ""

\* the white space of ASCII for int(), for pandas' reader of integers and
\* inside a run of SQLite's white space
AsciiWhiteSpace == SqlWhiteSpace \cup {VerticalTab}

\* The white space beyond ASCII of a file read with encoding='latin1', whose
\* characters end at U+00FF: the next-line control U+0085 and the no-break
\* space U+00A0.  (str.isspace() also accepts U+1680, U+2000 to U+200A,
\* U+2028, U+2029, U+202F, U+205F and U+3000, which latin1 does not yield.)
NextLine == ""
NoBreakSpace == " "
Latin1WhiteSpace == {NextLine, NoBreakSpace}

\* The characters int() skips around the digits of a str: the white space of
\* ASCII and, turned into blanks before the digits are read, the white space
\* beyond ASCII.  The separators of codes 28 to 31, which str.isspace()
\* accepts too, are not skipped.  int() also reads the decimal digits of
\* other scripts; latin1 yields none.
WhiteSpace == AsciiWhiteSpace \cup Latin1WhiteSpace

\* the number of leading characters of s that are of the kind "space"
\* (int()'s white space), "ascii space", "digit", "hex" or "id"
LeadLen(s, kind) ==
    LET Test(c) == IF kind = "space" THEN c \in WhiteSpace
                   ELSE IF kind = "ascii space" THEN c \in AsciiWhiteSpace
                   ELSE IF kind = "digit" THEN IsDigit(c)
                   ELSE IF kind = "hex" THEN IsHexDigit(c)
                   ELSE IsLetter(c) \/ c = "_" \/ IsDigit(c)
    IN  IF \A i \in 1..Len(s) : Test(s[i]) THEN Len(s)
        ELSE (CHOOSE i \in 1..Len(s) :
                 ~Test(s[i]) /\ \A j \in 1..(i - 1) : Test(s[j])) - 1

StartsWith(s, prefix) ==
    Len(prefix) <= Len(s) /\ SubSeq(s, 1, Len(prefix)) = prefix

\* whether int() takes the character for white space
IsSpace(c) == c \in WhiteSpace

\* the text without the white space int() skips at both of its ends
Strip(s) ==
    TheOne({SubSeq(rest, 1,
                   IF \A i \in 1..Len(rest) : IsSpace(rest[i]) THEN 0
                   ELSE CHOOSE i \in 1..Len(rest) :
                           /\ ~IsSpace(rest[i])
                           /\ \A j \in (i + 1)..Len(rest) : IsSpace(rest[j])) :
               rest \in {SubSeq(s, LeadLen(s, "space") + 1, Len(s))}})

\* the digits and underscores of an int() literal, without sign and blanks
PyIntBody(s) ==
    TheOne({IF Len(t) > 0 /\ t[1] \in {"+", "-"} THEN Tail(t) ELSE t :
               t \in {Strip(s)}})

\* whether int(s) succeeds on a str: blanks around, one optional sign, ASCII
\* digits, single underscores between digits
PyIntOk(s) ==
    \E b \in {PyIntBody(s)} :
        /\ Len(b) > 0
        /\ \A i \in 1..Len(b) :
              \/ IsDigit(b[i])
              \/ /\ b[i] = "_"
                 /\ 1 < i /\ i < Len(b)
                 /\ IsDigit(b[i - 1]) /\ IsDigit(b[i + 1])

\* int(s) where PyIntOk(s)
PyIntVal(s) ==
    TheOne({(IF Len(t) > 0 /\ t[1] = "-" THEN 0 - 1 ELSE 1) * ParseInt(ds) :
               t \in {Strip(s)}, ds \in {SelectSeq(PyIntBody(s), IsDigit)}})

\* whether a text writes an integer for pandas' reader and for SQLite's
\* numeric affinity: white space of ASCII around, one optional sign, digits
AsciiIntOk(s) ==
    \E t \in {SubSeq(s, LeadLen(s, "ascii space") + 1, Len(s))} :
      \E b \in {IF Len(t) > 0 /\ t[1] \in {"+", "-"} THEN Tail(t) ELSE t} :
        \E d \in {LeadLen(b, "digit")} :
            /\ d > 0
            /\ \A i \in (d + 1)..Len(b) : b[i] \in AsciiWhiteSpace

\* the integer of a text where AsciiIntOk
AsciiIntVal(s) ==
    TheOne({(IF t[1] = "-" THEN 0 - 1 ELSE 1) * ParseInt(SelectSeq(t, IsDigit)) :
               t \in {SubSeq(s, LeadLen(s, "ascii space") + 1, Len(s))}})

\* index of the first occurrence of sep in s, 0 when there is none
FirstIndex(s, sep) ==
    IF \E i \in 1..Len(s) : s[i] = sep
    THEN CHOOSE i \in 1..Len(s) : s[i] = sep /\ \A j \in 1..(i - 1) : s[j] # sep
    ELSE 0

\* str.split(sep): the list of segments between occurrences of sep
RECURSIVE Split(_, _)
Split(s, sep) ==
    LET i == FirstIndex(s, sep)
    IN  IF i = 0 THEN <<s>>
        ELSE <<SubSeq(s, 1, i - 1)>> \o Split(SubSeq(s, i + 1, Len(s)), sep)

YearLen == 4

\* s[-4:]
LastChars(s) == SubSeq(s, Max(1, Len(s) - YearLen + 1), Len(s))

\* A mutant of extract_year_from_path: takes the first four characters.
extract_year_head(path) ==
    LET segs == Split(path, "/")
        stem == Split(segs[Len(segs)], ".")[1]
    IN  SubSeq(stem, 1, Min(YearLen, Len(stem)))

\* file_path.split('/')[-1].split('.')[0][-4:]
extract_year_from_path(path) ==
    LET segs == Split(path, "/")
        stem == Split(segs[Len(segs)], ".")[1]
    IN  LastChars(stem)

----------------------------------------------------------------------------
(* Floats *)

\* A Python float as float.hex() writes it: the sign, the leading digit (1,
\* or 0 for zero and for a subnormal), the 13 hexadecimal digits of the
\* fraction and the exponent of 2.  0.5 is 0x1.0000000000000p-1 and 0.3 is
\* 0x1.3333333333333p-2.  nan and inf are of kinds of their own.
Float(neg, lead, frac, exp) ==
    [kind |-> "finite", neg |-> neg, lead |-> lead, frac |-> frac, exp |-> exp]

NaN == [Float(FALSE, 0, "0000000000000", 0) EXCEPT !.kind = "nan"]
Infinity == [Float(FALSE, 0, "0000000000000", 0) EXCEPT !.kind = "inf"]

\* the bits of the significand of a double
DoubleBits == 53
\* the highest exponent of 2 below which a double is finite
DoubleMaxExponent == 1024
\* the widest integer that the model holds
MaxIntBits == 30

\* the significand of a finite float as 14 hexadecimal digits, the highest
\* first; the float is worth the integer they write times 2^(exp - 52)
Significand(x) ==
    <<x.lead>> \o [i \in 1..Len(x.frac) |-> HexVal(Chars(x.frac)[i])]

\* the hexadecimal digits of a natural number, the highest first; none for 0
RECURSIVE NatDigits(_)
NatDigits(n) == IF n = 0 THEN <<>> ELSE NatDigits(n \div 16) \o <<n % 16>>

\* digits * n + carry for a natural number n, digit by digit from the lowest
RECURSIVE TimesDigits(_, _, _)
TimesDigits(digits, n, carry) ==
    IF Len(digits) = 0 THEN NatDigits(carry)
    ELSE TheOne({TimesDigits(SubSeq(digits, 1, Len(digits) - 1), n, v \div 16)
                    \o <<v % 16>> :
                    v \in {digits[Len(digits)] * n + carry}})

\* the bits of hexadecimal digits, four to a digit, the highest first
DigitBits(digits) ==
    [i \in 1..(4 * Len(digits)) |->
        (digits[(i + 3) \div 4] \div Pow(2, 3 - ((i - 1) % 4))) % 2]

\* the natural number that bits write
RECURSIVE BitsVal(_)
BitsVal(bits) ==
    IF Len(bits) = 0 THEN 0
    ELSE 2 * BitsVal(SubSeq(bits, 1, Len(bits) - 1)) + bits[Len(bits)]

\* bits without their leading zeros
StripZeros(bits) ==
    IF \A i \in 1..Len(bits) : bits[i] = 0 THEN <<>>
    ELSE SubSeq(bits, CHOOSE i \in 1..Len(bits) :
                         bits[i] = 1 /\ \A j \in 1..(i - 1) : bits[j] = 0,
                Len(bits))

\* bits + 1: the last 0 becomes 1 and the ones after it 0
Increment(bits) ==
    IF \A i \in 1..Len(bits) : bits[i] = 1
    THEN <<1>> \o [i \in 1..Len(bits) |-> 0]
    ELSE TheOne({[i \in 1..Len(bits) |->
                     IF i < last THEN bits[i] ELSE IF i = last THEN 1 ELSE 0] :
                    last \in {CHOOSE i \in 1..Len(bits) :
                                 /\ bits[i] = 0
                                 /\ \A j \in (i + 1)..Len(bits) : bits[j] = 1}})

\* n * x for a natural number n and a finite float x, not rounded: the
\* integer that bits write, times 2^exp
ExactProduct(n, x) ==
    [bits |-> StripZeros(DigitBits(TimesDigits(Significand(x), n, 0))),
     exp |-> x.exp - 52]

\* A product rounded to a double: of bits beyond DoubleBits the highest
\* DoubleBits are kept, and incremented when what is dropped is more than
\* half a unit of the last bit kept, or is half a unit and that bit is 1.
RoundToDouble(p) ==
    IF Len(p.bits) <= DoubleBits THEN p
    ELSE [bits |-> IF /\ p.bits[DoubleBits + 1] = 1
                      /\ \/ p.bits[DoubleBits] = 1
                         \/ \E i \in (DoubleBits + 2)..Len(p.bits) : p.bits[i] = 1
                   THEN Increment(SubSeq(p.bits, 1, DoubleBits))
                   ELSE SubSeq(p.bits, 1, DoubleBits),
          exp |-> p.exp + Len(p.bits) - DoubleBits]

\* the part before the binary point of bits * 2^exp; an integer of more
\* than MaxIntBits bits is given as 2^MaxIntBits, which no count reaches
IntegerPart(p) ==
    IF Len(p.bits) = 0 \/ Len(p.bits) + p.exp <= 0 THEN 0
    ELSE IF Len(p.bits) + p.exp > MaxIntBits THEN Pow(2, MaxIntBits)
    ELSE IF p.exp <= 0
         THEN BitsVal(SubSeq(p.bits, 1, Len(p.bits) + p.exp))
    ELSE BitsVal(p.bits) * Pow(2, p.exp)

\* whether bits * 2^exp has a part after the binary point
HasFraction(p) ==
    \E i \in 1..Len(p.bits) : i > Len(p.bits) + p.exp /\ p.bits[i] = 1

----------------------------------------------------------------------------
(* DataFrames and cells *)

StrCell(s) == [kind |-> "str", s |-> s, n |-> 0]
IntCell(n) == [kind |-> "int", s |-> <<>>, n |-> n]
Null == [kind |-> "null", s |-> <<>>, n |-> 0]

Star == StrCell(<<"*">>)

Range(f) == {f[i] : i \in DOMAIN f}

\* pd.DataFrame(rows, columns=columns): a column of integers has the dtype
\* int64, a column that holds a text, or no cell, the dtype object
DataFrame(columns, rows) ==
    [columns |-> columns,
     dtypes |-> [c \in 1..Len(columns) |->
                    IF /\ Len(rows) > 0
                       /\ \A k \in 1..Len(rows) : rows[k][c].kind = "int"
                    THEN "int64" ELSE "object"],
     rows |-> rows]

EmptyFrame == DataFrame(<<>>, <<>>)

\* position of the first column called name
ColIndex(columns, name) ==
    CHOOSE i \in 1..Len(columns) :
        columns[i] = name /\ \A j \in 1..(i - 1) : columns[j] # name

\* (x == '*').sum() over one row
StarCount(row) == Cardinality({i \in 1..Len(row) : row[i] = Star})

\* the default of preprocess_data, threshold=0.5
DefaultThreshold == Float(FALSE, 1, "0000000000000", 0 - 1)

\* num_columns * threshold: the int becomes a double and the product is
\* rounded to a double; "nan" and "inf" when it is no finite number
float_product(num_columns, threshold) ==
    IF threshold.kind = "nan" THEN "nan"
    ELSE IF threshold.kind = "inf"
         THEN IF num_columns = 0 THEN "nan" ELSE "inf"
    ELSE TheOne({IF Len(p.bits) + p.exp > DoubleMaxExponent
                 THEN "inf" ELSE "finite" :
                    p \in {RoundToDouble(ExactProduct(num_columns, threshold))}})

\* the exception that int(num_columns * threshold) raises, or ""
allowed_stars_error(num_columns, threshold) ==
    TheOne({IF kind = "nan" THEN "ValueError"
            ELSE IF kind = "inf" THEN "OverflowError"
            ELSE "" :
               kind \in {float_product(num_columns, threshold)}})

\* allowed_stars = int(num_columns * threshold), where it raises nothing:
\* the product as a double, cut at the binary point (toward zero)
allowed_stars(num_columns, threshold) ==
    TheOne({IF threshold.neg THEN 0 - whole ELSE whole :
               whole \in {IntegerPart(RoundToDouble(
                              ExactProduct(num_columns, threshold)))}})

\* A mutant of keeps_row: drops a row that sits exactly at the limit.
keeps_row_strict(row, allowed) == StarCount(row) < allowed

\* the row filter: (x == '*').sum() <= allowed_stars
keeps_row(row, allowed) == StarCount(row) <= allowed

\* int(value) succeeds on an integer and on a str that PyIntOk accepts; it
\* fails on the other strs and on a missing value
CanInt(cell) == cell.kind = "int" \/ (cell.kind = "str" /\ PyIntOk(cell.s))

\* Series.astype(int) on one cell
AsInt(cell) == IF cell.kind = "int" THEN cell ELSE IntCell(PyIntVal(cell.s))

IntColumns == <<"COMUNA_RESIDENCIA", "REGION_RESIDENCIA", "ANO_EGRESO">>

\* the exception that cleaned_df[name].astype(int) raises, or ""
CoerceError(columns, rows, name) ==
    IF name \notin Range(columns) THEN "KeyError"
    ELSE IF \E k \in 1..Len(rows), c \in 1..Len(columns) :
               columns[c] = name /\ ~CanInt(rows[k][c])
         THEN "ValueError"
         ELSE ""

\* cleaned_df.loc[:, name] = cleaned_df[name].astype(int), for the three
\* names of IntColumns: the cells of those columns become integers
CoerceColumns(columns, rows) ==
    [k \in 1..Len(rows) |->
        [c \in 1..Len(columns) |->
            IF columns[c] \in Range(IntColumns)
            THEN AsInt(rows[k][c])
            ELSE rows[k][c]]]

\* The dtypes after those assignments.  astype(int) gives an int64 Series;
\* assigned to an object column through .loc[:, name] it replaces the column
\* in pandas before 2.0 (int64) and is written into the column from 2.0 on
\* (object, holding integers): the dtype is then one of the two.
CoerceDtypes(columns, dtypes) ==
    [c \in 1..Len(columns) |->
        IF columns[c] \in Range(IntColumns) /\ dtypes[c] # "int64"
        THEN "int64, or object in place"
        ELSE dtypes[c]]

new_column_names ==
    <<"PERTENENCIA_ESTABLECIMIENTO_SALUD", "SEXO", "GRUPO_EDAD", "ETNIA",
      "GLOSA_PAIS_ORIGEN", "COMUNA_RESIDENCIA", "GLOSA_COMUNA_RESIDENCIA",
      "REGION_RESIDENCIA", "GLOSA_REGION_RESIDENCIA", "PREVISION",
      "GLOSA_PREVISION", "ANO_EGRESO", "DIAG1", "DIAG2", "DIAS_ESTADA",
      "CONDICION_EGRESO", "INTERV_Q", "PROCED">>

\* A mutant of rename_columns: pairs the names from the end of the list.
rename_columns_tail(old_column_names) ==
    LET shift == Len(new_column_names) - Len(old_column_names)
    IN  [i \in 1..Len(old_column_names) |->
            IF i + shift \in 1..Len(new_column_names)
            THEN new_column_names[i + shift]
            ELSE old_column_names[i]]

\* column_mapping = dict(zip(old, new)); rename(columns=column_mapping):
\* zip stops at the shorter list, a repeated key keeps its last value, and a
\* label that is no key of the mapping is left as it is
rename_columns(old_column_names) ==
    LET zipped == 1..Min(Len(old_column_names), Len(new_column_names))
        IsKey(name) == \E i \in zipped : old_column_names[i] = name
        Value(name) ==
            LET last == CHOOSE i \in zipped :
                            /\ old_column_names[i] = name
                            /\ \A j \in zipped :
                                   old_column_names[j] = name => j <= i
            IN  new_column_names[last]
    IN  [i \in 1..Len(old_column_names) |->
            IF IsKey(old_column_names[i])
            THEN Value(old_column_names[i])
            ELSE old_column_names[i]]

\* df[df.apply(lambda x: (x == '*').sum() <= allowed_stars, axis=1)].
\* With at least one row, apply returns one boolean per row and the frame
\* keeps the rows marked True.  With no row, apply returns an empty Series
\* that is not boolean, and indexing by it selects columns, none of them:
\* the result has no column and no row.
filter_rows(df, allowed) ==
    LET Keep(row) == keeps_row(row, allowed)
    IN  IF Len(df.rows) = 0 THEN EmptyFrame
        ELSE [df EXCEPT !.rows = SelectSeq(df.rows, Keep)]

\* preprocess_data(df, threshold): raised names the exception that ends the
\* call ("" when it returns), df is the frame returned.  int() of line 79
\* raises on a product that is no finite number.  The three assignments of
\* lines 86 to 90 are tried in their order, each on a column of its own, so
\* each finds the cells that the filter left.
preprocess_data(df, threshold) ==
    IF allowed_stars_error(Len(df.columns), threshold) # ""
    THEN [raised |-> allowed_stars_error(Len(df.columns), threshold),
          df |-> EmptyFrame]
    ELSE TheOne({
        LET e1 == CoerceError(cleaned.columns, cleaned.rows, IntColumns[1])
            e2 == CoerceError(cleaned.columns, cleaned.rows, IntColumns[2])
            e3 == CoerceError(cleaned.columns, cleaned.rows, IntColumns[3])
        IN  IF e1 # "" THEN [raised |-> e1, df |-> EmptyFrame]
            ELSE IF e2 # "" THEN [raised |-> e2, df |-> EmptyFrame]
            ELSE IF e3 # "" THEN [raised |-> e3, df |-> EmptyFrame]
            ELSE [raised |-> "",
                  df |-> [columns |-> rename_columns(cleaned.columns),
                          dtypes |-> CoerceDtypes(cleaned.columns, cleaned.dtypes),
                          rows |-> CoerceColumns(cleaned.columns, cleaned.rows)]] :
        cleaned \in {filter_rows(df, allowed_stars(Len(df.columns), threshold))}})

\* pd.read_csv(file_path, encoding='latin1', delimiter=';') on a file, given
\* as its header and its rows of texts: a column in which every cell writes
\* an integer is a column of integers, int64; any other column keeps its
\* texts, object.  (A cell that is empty or writes a number with a fraction
\* is no cell of the files of this model.)
read_csv(columns, rows) ==
    LET IsIntColumn(c) ==
            /\ Len(rows) > 0
            /\ \A k \in 1..Len(rows) : AsciiIntOk(rows[k][c].s)
    IN  DataFrame(columns,
                  [k \in 1..Len(rows) |->
                      [c \in 1..Len(columns) |->
                          IF IsIntColumn(c)
                          THEN IntCell(AsciiIntVal(rows[k][c].s))
                          ELSE rows[k][c]]])

----------------------------------------------------------------------------
(* The SQLite table egresos_pacientes *)

\* SQLite matches the names of columns without regard to the case of the
\* letters of ASCII: the characters of the label, in upper case
FoldLabel(label) == UpperText(Chars(label))

SameLabel(a, b) == FoldLabel(a) = FoldLabel(b)

HasColumn(columns, name) == \E i \in 1..Len(columns) : SameLabel(columns[i], name)

SqlColIndex(columns, name) ==
    CHOOSE i \in 1..Len(columns) : SameLabel(columns[i], name)

IsIdStart(c) == IsLetter(c) \/ c = "_"
IsIdChar(c) == IsIdStart(c) \/ IsDigit(c)

\* the words SQLite reserves for its grammar; one of them in the place of
\* the year changes the shape of the statement (16 OR 1, 16 LIMIT 0, ...)
SqlKeywords ==
    {<<"A", "B", "O", "R", "T">>, <<"A", "C", "T", "I", "O", "N">>,
     <<"A", "D", "D">>, <<"A", "F", "T", "E", "R">>, <<"A", "L", "L">>,
     <<"A", "L", "T", "E", "R">>, <<"A", "L", "W", "A", "Y", "S">>,
     <<"A", "N", "A", "L", "Y", "Z", "E">>, <<"A", "N", "D">>, <<"A", "S">>,
     <<"A", "S", "C">>, <<"A", "T", "T", "A", "C", "H">>,
     <<"A", "U", "T", "O", "I", "N", "C", "R", "E", "M", "E", "N", "T">>,
     <<"B", "E", "F", "O", "R", "E">>, <<"B", "E", "G", "I", "N">>,
     <<"B", "E", "T", "W", "E", "E", "N">>, <<"B", "Y">>,
     <<"C", "A", "S", "C", "A", "D", "E">>, <<"C", "A", "S", "E">>,
     <<"C", "A", "S", "T">>, <<"C", "H", "E", "C", "K">>,
     <<"C", "O", "L", "L", "A", "T", "E">>, <<"C", "O", "L", "U", "M", "N">>,
     <<"C", "O", "M", "M", "I", "T">>,
     <<"C", "O", "N", "F", "L", "I", "C", "T">>,
     <<"C", "O", "N", "S", "T", "R", "A", "I", "N", "T">>,
     <<"C", "R", "E", "A", "T", "E">>, <<"C", "R", "O", "S", "S">>,
     <<"C", "U", "R", "R", "E", "N", "T">>,
     <<"C", "U", "R", "R", "E", "N", "T", "_", "D", "A", "T", "E">>,
     <<"C", "U", "R", "R", "E", "N", "T", "_", "T", "I", "M", "E">>,
     <<"C", "U", "R", "R", "E", "N", "T", "_", "T", "I", "M", "E", "S", "T", "A", "M", "P">>,
     <<"D", "A", "T", "A", "B", "A", "S", "E">>,
     <<"D", "E", "F", "A", "U", "L", "T">>,
     <<"D", "E", "F", "E", "R", "R", "A", "B", "L", "E">>,
     <<"D", "E", "F", "E", "R", "R", "E", "D">>,
     <<"D", "E", "L", "E", "T", "E">>, <<"D", "E", "S", "C">>,
     <<"D", "E", "T", "A", "C", "H">>,
     <<"D", "I", "S", "T", "I", "N", "C", "T">>, <<"D", "O">>,
     <<"D", "R", "O", "P">>, <<"E", "A", "C", "H">>, <<"E", "L", "S", "E">>,
     <<"E", "N", "D">>, <<"E", "S", "C", "A", "P", "E">>,
     <<"E", "X", "C", "E", "P", "T">>, <<"E", "X", "C", "L", "U", "D", "E">>,
     <<"E", "X", "C", "L", "U", "S", "I", "V", "E">>,
     <<"E", "X", "I", "S", "T", "S">>, <<"E", "X", "P", "L", "A", "I", "N">>,
     <<"F", "A", "I", "L">>, <<"F", "I", "L", "T", "E", "R">>,
     <<"F", "I", "R", "S", "T">>,
     <<"F", "O", "L", "L", "O", "W", "I", "N", "G">>, <<"F", "O", "R">>,
     <<"F", "O", "R", "E", "I", "G", "N">>, <<"F", "R", "O", "M">>,
     <<"F", "U", "L", "L">>, <<"G", "E", "N", "E", "R", "A", "T", "E", "D">>,
     <<"G", "L", "O", "B">>, <<"G", "R", "O", "U", "P">>,
     <<"G", "R", "O", "U", "P", "S">>, <<"H", "A", "V", "I", "N", "G">>,
     <<"I", "F">>, <<"I", "G", "N", "O", "R", "E">>,
     <<"I", "M", "M", "E", "D", "I", "A", "T", "E">>, <<"I", "N">>,
     <<"I", "N", "D", "E", "X">>, <<"I", "N", "D", "E", "X", "E", "D">>,
     <<"I", "N", "I", "T", "I", "A", "L", "L", "Y">>,
     <<"I", "N", "N", "E", "R">>, <<"I", "N", "S", "E", "R", "T">>,
     <<"I", "N", "S", "T", "E", "A", "D">>,
     <<"I", "N", "T", "E", "R", "S", "E", "C", "T">>, <<"I", "N", "T", "O">>,
     <<"I", "S">>, <<"I", "S", "N", "U", "L", "L">>, <<"J", "O", "I", "N">>,
     <<"K", "E", "Y">>, <<"L", "A", "S", "T">>, <<"L", "E", "F", "T">>,
     <<"L", "I", "K", "E">>, <<"L", "I", "M", "I", "T">>,
     <<"M", "A", "T", "C", "H">>,
     <<"M", "A", "T", "E", "R", "I", "A", "L", "I", "Z", "E", "D">>,
     <<"N", "A", "T", "U", "R", "A", "L">>, <<"N", "O">>, <<"N", "O", "T">>,
     <<"N", "O", "T", "H", "I", "N", "G">>,
     <<"N", "O", "T", "N", "U", "L", "L">>, <<"N", "U", "L", "L">>,
     <<"N", "U", "L", "L", "S">>, <<"O", "F">>,
     <<"O", "F", "F", "S", "E", "T">>, <<"O", "N">>, <<"O", "R">>,
     <<"O", "R", "D", "E", "R">>, <<"O", "T", "H", "E", "R", "S">>,
     <<"O", "U", "T", "E", "R">>, <<"O", "V", "E", "R">>,
     <<"P", "A", "R", "T", "I", "T", "I", "O", "N">>, <<"P", "L", "A", "N">>,
     <<"P", "R", "A", "G", "M", "A">>,
     <<"P", "R", "E", "C", "E", "D", "I", "N", "G">>,
     <<"P", "R", "I", "M", "A", "R", "Y">>, <<"Q", "U", "E", "R", "Y">>,
     <<"R", "A", "I", "S", "E">>, <<"R", "A", "N", "G", "E">>,
     <<"R", "E", "C", "U", "R", "S", "I", "V", "E">>,
     <<"R", "E", "F", "E", "R", "E", "N", "C", "E", "S">>,
     <<"R", "E", "G", "E", "X", "P">>, <<"R", "E", "I", "N", "D", "E", "X">>,
     <<"R", "E", "L", "E", "A", "S", "E">>, <<"R", "E", "N", "A", "M", "E">>,
     <<"R", "E", "P", "L", "A", "C", "E">>,
     <<"R", "E", "S", "T", "R", "I", "C", "T">>,
     <<"R", "E", "T", "U", "R", "N", "I", "N", "G">>,
     <<"R", "I", "G", "H", "T">>, <<"R", "O", "L", "L", "B", "A", "C", "K">>,
     <<"R", "O", "W">>, <<"R", "O", "W", "S">>,
     <<"S", "A", "V", "E", "P", "O", "I", "N", "T">>,
     <<"S", "E", "L", "E", "C", "T">>, <<"S", "E", "T">>,
     <<"T", "A", "B", "L", "E">>, <<"T", "E", "M", "P">>,
     <<"T", "E", "M", "P", "O", "R", "A", "R", "Y">>, <<"T", "H", "E", "N">>,
     <<"T", "I", "E", "S">>, <<"T", "O">>,
     <<"T", "R", "A", "N", "S", "A", "C", "T", "I", "O", "N">>,
     <<"T", "R", "I", "G", "G", "E", "R">>,
     <<"U", "N", "B", "O", "U", "N", "D", "E", "D">>,
     <<"U", "N", "I", "O", "N">>, <<"U", "N", "I", "Q", "U", "E">>,
     <<"U", "P", "D", "A", "T", "E">>, <<"U", "S", "I", "N", "G">>,
     <<"V", "A", "C", "U", "U", "M">>, <<"V", "A", "L", "U", "E", "S">>,
     <<"V", "I", "E", "W">>, <<"V", "I", "R", "T", "U", "A", "L">>,
     <<"W", "H", "E", "N">>, <<"W", "H", "E", "R", "E">>,
     <<"W", "I", "N", "D", "O", "W">>, <<"W", "I", "T", "H">>,
     <<"W", "I", "T", "H", "O", "U", "T">>}

\* the length of the comment at the head of s, where s opens with "--": it
\* runs to the end of the line, the line feed included
CommentLen(s) ==
    IF \E i \in 1..Len(s) : s[i] = "\n" THEN FirstIndex(s, "\n") ELSE Len(s)

SqlToken(type, text) == [type |-> type, text |-> text]

IsHexLiteral(s) ==
    Len(s) >= 3 /\ s[1] = "0" /\ Upper(s[2]) = "X" /\ IsHexDigit(s[3])

\* the length of the exponent ("e", an optional sign, digits) at the head of r
ExponentLen(r) ==
    IF Len(r) >= 2 /\ Upper(r[1]) = "E" /\ IsDigit(r[2])
    THEN 1 + LeadLen(Tail(r), "digit")
    ELSE IF Len(r) >= 3 /\ Upper(r[1]) = "E" /\ r[2] \in {"+", "-"} /\ IsDigit(r[3])
         THEN 2 + LeadLen(SubSeq(r, 3, Len(r)), "digit")
         ELSE 0

\* the length of the numeric literal at the head of s, where s[1] is a digit
\* and no '.' follows its digits
NumberLen(s) ==
    IF IsHexLiteral(s) THEN 2 + LeadLen(SubSeq(s, 3, Len(s)), "hex")
    ELSE LET d == LeadLen(s, "digit")
         IN  d + ExponentLen(SubSeq(s, d + 1, Len(s)))

NumberType(s) ==
    IF IsHexLiteral(s) THEN "hex"
    ELSE IF NumberLen(s) > LeadLen(s, "digit") THEN "float"
    ELSE "int"

\* SQLite's tokenizer, up to the end of the first statement.  White space
\* and "--" comments separate tokens; a vertical tab is skipped in a run of
\* white space and is an illegal token at the head of one; '+' and '-' are
\* operators; a decimal literal that runs into a letter or '_' is an illegal
\* token together with the run; ';' ends the statement, and its token holds
\* the text that follows; a token that opens with any other character ('*',
\* '/', '(', '=', a quote, '.', '?', ':', a character beyond ASCII, ...) is
\* of the type "other", which the model reads no further.
RECURSIVE SqlTokens(_)
SqlTokens(s) ==
    IF Len(s) = 0 THEN <<>>
    ELSE IF s[1] \in SqlWhiteSpace
         THEN TheOne({SqlTokens(rest) :
                         rest \in {SubSeq(s, LeadLen(s, "ascii space") + 1, Len(s))}})
    ELSE IF s[1] = VerticalTab
         THEN <<SqlToken("illegal", <<s[1]>>)>> \o SqlTokens(Tail(s))
    ELSE IF Len(s) >= 2 /\ s[1] = "-" /\ s[2] = "-"
         THEN TheOne({SqlTokens(rest) :
                         rest \in {SubSeq(s, CommentLen(s) + 1, Len(s))}})
    ELSE IF s[1] \in {"+", "-"}
         THEN <<SqlToken("op", <<s[1]>>)>> \o SqlTokens(Tail(s))
    ELSE IF s[1] = ";"
         THEN <<SqlToken("semi", Tail(s))>>
    ELSE IF IsDigit(s[1])
         THEN TheOne({
                IF ~IsHexLiteral(s) /\ n < Len(s) /\ IsIdChar(s[n + 1])
                THEN TheOne({
                        <<SqlToken("illegal", SubSeq(s, 1, m))>>
                        \o TheOne({SqlTokens(rest) :
                                      rest \in {SubSeq(s, m + 1, Len(s))}}) :
                        m \in {n + LeadLen(SubSeq(s, n + 1, Len(s)), "id")}})
                ELSE <<SqlToken(NumberType(s), SubSeq(s, 1, n))>>
                     \o TheOne({SqlTokens(rest) :
                                   rest \in {SubSeq(s, n + 1, Len(s))}}) :
                n \in {NumberLen(s)}})
    ELSE IF IsIdStart(s[1])
         THEN TheOne({
                <<SqlToken("id", SubSeq(s, 1, n))>>
                \o TheOne({SqlTokens(rest) :
                              rest \in {SubSeq(s, n + 1, Len(s))}}) :
                n \in {LeadLen(s, "id")}})
    ELSE <<SqlToken("other", <<s[1]>>)>> \o SqlTokens(Tail(s))

\* the largest number of digits of a literal the model computes with
MaxDigits == 9

\* the digits of the exponent of a literal such as 20e2 or 5e-1
ExponentDigits(text) ==
    LET d == LeadLen(text, "digit")
    IN  SubSeq(text, IF text[d + 2] \in {"+", "-"} THEN d + 3 ELSE d + 2,
               Len(text))

\* whether the model computes the value of a literal with an exponent: its
\* digits and the digits of its power of ten fit MaxDigits
FloatComputed(text) ==
    LET d == LeadLen(text, "digit")
        e == ExponentDigits(text)
    IN  /\ d <= MaxDigits
        /\ Len(e) <= MaxDigits
        /\ \/ ParseInt(SubSeq(text, 1, d)) = 0
           \/ IF text[d + 2] = "-" THEN ParseInt(e) <= MaxDigits
              ELSE d + ParseInt(e) <= MaxDigits

\* whether an identifier, in upper case, names a column of the table
NamesColumn(u, columns) ==
    \E i \in 1..Len(columns) : FoldLabel(columns[i]) = u

\* Whether the model computes what SQLite makes of a token.  It does not for
\* a token of the type "other", for a keyword other than NULL and for a
\* literal of more than MaxDigits digits.
SqlKnownToken(tok) ==
    IF tok.type \in {"op", "illegal"} THEN TRUE
    ELSE IF tok.type = "int" THEN Len(tok.text) <= MaxDigits
    ELSE IF tok.type = "hex" THEN Len(tok.text) - 2 < 8
    ELSE IF tok.type = "float" THEN FloatComputed(tok.text)
    ELSE IF tok.type = "id"
         THEN \E u \in {UpperText(tok.text)} :
                u = <<"N", "U", "L", "L">> \/ u \notin SqlKeywords
    ELSE FALSE

SqlKnown(toks) == \A i \in 1..Len(toks) : SqlKnownToken(toks[i])

\* The value of an SQL expression: an error of the statement, NULL, a text,
\* the number num/den (real when it is a REAL and no INTEGER), or "unknown":
\* a value the model does not compute.  aff is the affinity of the column
\* the value is read from, "none" for any other expression.
SqlErr ==
    [k |-> "err", num |-> 0, den |-> 1, real |-> FALSE, s |-> <<>>, aff |-> "none"]
SqlNull ==
    [k |-> "null", num |-> 0, den |-> 1, real |-> FALSE, s |-> <<>>, aff |-> "none"]
SqlUnknown ==
    [k |-> "unknown", num |-> 0, den |-> 1, real |-> FALSE, s |-> <<>>,
     aff |-> "none"]
SqlNum(num, den, real) ==
    [k |-> "num", num |-> num, den |-> den, real |-> real, s |-> <<>>,
     aff |-> "none"]
SqlTextValue(s) ==
    [k |-> "text", num |-> 0, den |-> 1, real |-> FALSE, s |-> s, aff |-> "none"]

\* the value of a literal with an exponent, where FloatComputed
FloatValue(text) ==
    LET d == LeadLen(text, "digit")
        mant == ParseInt(SubSeq(text, 1, d))
        expo == ParseInt(ExponentDigits(text))
    IN  IF mant = 0 THEN SqlNum(0, 1, TRUE)
        ELSE IF text[d + 2] = "-" THEN SqlNum(mant, Pow(10, expo), TRUE)
        ELSE SqlNum(mant * Pow(10, expo), 1, TRUE)

\* the affinity SQLite gives a column from the type to_sql declares
Affinity(type) == IF type = "BIGINT" THEN "INTEGER" ELSE "TEXT"

\* what a stored cell is worth in an expression that names its column
CellValue(cell, type) ==
    [(IF cell.kind = "int" THEN SqlNum(cell.n, 1, FALSE)
      ELSE IF cell.kind = "str" THEN SqlTextValue(cell.s)
      ELSE SqlNull) EXCEPT !.aff = Affinity(type)]

RowidNames ==
    {<<"O", "I", "D">>, <<"R", "O", "W", "I", "D">>,
     <<"_", "R", "O", "W", "I", "D", "_">>}

\* one operand, where SqlKnownToken: a literal, NULL, a column of the row,
\* the row's rowid, TRUE or FALSE; any other name makes SQLite reject the
\* statement, and so does an illegal token
SqlAtom(tok, columns, types, row, rowid) ==
    IF tok.type = "int" THEN SqlNum(ParseInt(tok.text), 1, FALSE)
    ELSE IF tok.type = "hex"
         THEN SqlNum(ParseHex(SubSeq(tok.text, 3, Len(tok.text))), 1, FALSE)
    ELSE IF tok.type = "float" THEN FloatValue(tok.text)
    ELSE IF tok.type = "id"
         THEN TheOne({
                IF u = <<"N", "U", "L", "L">> THEN SqlNull
                ELSE IF NamesColumn(u, columns)
                     THEN TheOne({CellValue(row[i], types[i]) :
                                     i \in {CHOOSE i \in 1..Len(columns) :
                                               FoldLabel(columns[i]) = u}})
                ELSE IF u \in RowidNames
                     THEN [SqlNum(rowid, 1, FALSE) EXCEPT !.aff = "INTEGER"]
                ELSE IF u = <<"T", "R", "U", "E">> THEN SqlNum(1, 1, FALSE)
                ELSE IF u = <<"F", "A", "L", "S", "E">> THEN SqlNum(0, 1, FALSE)
                ELSE SqlErr :
                u \in {UpperText(tok.text)}})
    ELSE SqlErr

\* whether a text may open with a number for SQLite: white space of ASCII, a
\* sign, a digit or a decimal point comes first
MayOpenNumber(s) ==
    /\ Len(s) > 0
    /\ (s[1] \in AsciiWhiteSpace \/ IsDigit(s[1]) \/ s[1] \in {"+", "-", "."})

\* A value used as a number in arithmetic.  SQLite reads the longest numeric
\* prefix of a text: the model computes it for a run of at most MaxDigits
\* digits (its value) and for a text that cannot open with a number (0).
\* Arithmetic on a REAL that is no whole number is binary floating point,
\* which the model does not compute.
SqlNumeric(v) ==
    IF v.k = "text"
    THEN IF IsNumeric(v.s) /\ Len(v.s) <= MaxDigits
         THEN SqlNum(ParseInt(v.s), 1, FALSE)
         ELSE IF MayOpenNumber(v.s) THEN SqlUnknown
         ELSE SqlNum(0, 1, FALSE)
    ELSE IF v.k = "num" /\ v.num % v.den # 0 THEN SqlUnknown
    ELSE IF v.k = "num" THEN SqlNum(v.num \div v.den, 1, v.real)
    ELSE [v EXCEPT !.aff = "none"]

\* unary minus
SqlNeg(v) ==
    IF v.k \in {"err", "null", "unknown"} THEN [v EXCEPT !.aff = "none"]
    ELSE IF v.k = "num" THEN SqlNum(0 - v.num, v.den, v.real)
    ELSE TheOne({IF n.k = "unknown" THEN n ELSE SqlNum(0 - n.num, 1, n.real) :
                    n \in {SqlNumeric(v)}})

\* binary plus
SqlAdd(a, b) ==
    IF a.k = "err" \/ b.k = "err" THEN SqlErr
    ELSE IF a.k = "unknown" \/ b.k = "unknown" THEN SqlUnknown
    ELSE IF a.k = "null" \/ b.k = "null" THEN SqlNull
    ELSE TheOne({IF x.k = "unknown" \/ z.k = "unknown" THEN SqlUnknown
                 ELSE SqlNum(x.num + z.num, 1, x.real \/ z.real) :
                    x \in {SqlNumeric(a)}, z \in {SqlNumeric(b)}})

\* signs and the operand they apply to; rest is what follows the operand.
\* A sign, '+' included, leaves a value without affinity.
RECURSIVE SqlUnary(_, _, _, _, _)
SqlUnary(toks, columns, types, row, rowid) ==
    IF Len(toks) = 0 THEN [v |-> SqlErr, rest |-> <<>>]
    ELSE IF toks[1].type = "op"
         THEN TheOne({[v |-> IF toks[1].text = <<"-">> THEN SqlNeg(u.v)
                             ELSE [u.v EXCEPT !.aff = "none"],
                       rest |-> u.rest] :
                        u \in {SqlUnary(Tail(toks), columns, types, row, rowid)}})
    ELSE [v |-> SqlAtom(toks[1], columns, types, row, rowid),
          rest |-> Tail(toks)]

\* the sums and differences that follow a first operand of value acc
RECURSIVE SqlSum(_, _, _, _, _, _)
SqlSum(acc, toks, columns, types, row, rowid) ==
    IF acc.k = "err" \/ Len(toks) = 0 THEN acc
    ELSE IF toks[1].type # "op" THEN SqlErr
    ELSE TheOne({
            TheOne({SqlSum(sum, u.rest, columns, types, row, rowid) :
                      sum \in {SqlAdd(acc, IF toks[1].text = <<"-">>
                                           THEN SqlNeg(u.v) ELSE u.v)}}) :
            u \in {SqlUnary(Tail(toks), columns, types, row, rowid)}})

\* the expression SQLite reads after "ANO_EGRESO=", written by the tokens
\* toks where SqlKnown, evaluated on one row
SqlParse(toks, columns, types, row, rowid) ==
    TheOne({SqlSum(u.v, u.rest, columns, types, row, rowid) :
               u \in {SqlUnary(toks, columns, types, row, rowid)}})

\* A text under numeric affinity: the integer it writes, the text itself
\* when it cannot write a number, "unknown" otherwise (a fraction, an
\* exponent, or more than MaxDigits digits, which the model does not read).
NumericAffinity(s) ==
    IF AsciiIntOk(s) /\ Len(SelectSeq(s, IsDigit)) <= MaxDigits
    THEN SqlNum(AsciiIntVal(s), 1, FALSE)
    ELSE IF MayOpenNumber(s) THEN SqlUnknown
    ELSE SqlTextValue(s)

\* equality of two values to which no further affinity applies, the first
\* of them what a cell holds: a text or an integer
SameValue(a, b) ==
    IF a.k = "unknown" \/ b.k = "unknown" THEN "maybe"
    ELSE IF a.k = "num" /\ b.k = "num"
         THEN IF b.num % b.den = 0 /\ a.num = b.num \div b.den
              THEN "yes" ELSE "no"
    ELSE IF a.k = "text" /\ b.k = "text"
         THEN IF a.s = b.s THEN "yes" ELSE "no"
    ELSE "no"

\* the text SQLite writes for a whole number: 2019, or 2019.0 for a REAL
NumberText(v) ==
    IntText(v.num \div v.den) \o (IF v.real THEN <<".", "0">> ELSE <<>>)

\* ANO_EGRESO = v on one row, cell being what the row stores in ANO_EGRESO
\* and type the declared type of that column: "yes", "no", or "maybe" where
\* the model does not compute the comparison.  NULL equals nothing.  When
\* one side has the affinity INTEGER and the other has not, the other is
\* read under numeric affinity; when the column has the affinity TEXT and v
\* has none, v is compared as the text SQLite writes for it.
SqlEquals(cell, type, v) ==
    IF v.k = "unknown" THEN "maybe"
    ELSE IF cell.kind = "null" \/ v.k \in {"err", "null"} THEN "no"
    ELSE IF Affinity(type) = "INTEGER"
         THEN IF cell.kind = "str"
              THEN IF v.k = "text" /\ v.s = cell.s THEN "yes" ELSE "no"
              ELSE SameValue(SqlNum(cell.n, 1, FALSE),
                             IF v.k = "text" /\ v.aff # "INTEGER"
                             THEN NumericAffinity(v.s) ELSE v)
    ELSE IF cell.kind = "int"
         THEN SameValue(SqlNum(cell.n, 1, FALSE), v)
    ELSE IF v.aff = "INTEGER"
         THEN IF v.k = "text"
              THEN IF v.s = cell.s THEN "yes" ELSE "no"
              ELSE SameValue(NumericAffinity(cell.s), v)
    ELSE IF v.k = "text" THEN IF v.s = cell.s THEN "yes" ELSE "no"
    ELSE IF v.num % v.den = 0
         THEN IF cell.s = NumberText(v) THEN "yes" ELSE "no"
         ELSE IF MayOpenNumber(cell.s) THEN "maybe" ELSE "no"

\* The statement up to its first ';': the tokens before it in head, whether
\* there is one in ended, and the text after it in tail.
FirstStatement(toks) ==
    IF Len(toks) > 0 /\ toks[Len(toks)].type = "semi"
    THEN [head |-> SubSeq(toks, 1, Len(toks) - 1), ended |-> TRUE,
          tail |-> toks[Len(toks)].text]
    ELSE [head |-> toks, ended |-> FALSE, tail |-> <<>>]

\* index of the first "*/" in s, 0 when there is none
CommentEnd(s) ==
    IF \E i \in 1..(Len(s) - 1) : s[i] = "*" /\ s[i + 1] = "/"
    THEN CHOOSE i \in 1..(Len(s) - 1) :
            /\ s[i] = "*" /\ s[i + 1] = "/"
            /\ \A j \in 1..(i - 1) : ~(s[j] = "*" /\ s[j + 1] = "/")
    ELSE 0

\* Whether the driver finds nothing to execute in the text after the first
\* statement: it skips blank, tab, form feed, line feed and carriage return,
\* "--" comments to the end of their line and "/* */" comments; a comment
\* that does not end closes the text.  Any other character, the vertical
\* tab among them, opens a second statement.
RECURSIVE TailIsBlank(_)
TailIsBlank(s) ==
    IF Len(s) = 0 THEN TRUE
    ELSE IF s[1] \in SqlWhiteSpace THEN TailIsBlank(Tail(s))
    ELSE IF Len(s) >= 2 /\ s[1] = "-" /\ s[2] = "-"
         THEN TheOne({IF i = 0 THEN TRUE
                      ELSE TailIsBlank(SubSeq(s, i + 1, Len(s))) :
                         i \in {FirstIndex(s, "\n")}})
    ELSE IF Len(s) >= 2 /\ s[1] = "/" /\ s[2] = "*"
         THEN TheOne({IF i = 0 THEN TRUE
                      ELSE TailIsBlank(SubSeq(s, i + 4, Len(s))) :
                         i \in {CommentEnd(SubSeq(s, 3, Len(s)))}})
    ELSE FALSE

\* whether SQLite rejects the statement when it prepares it, which it does
\* alike for every row
statement_rejected(toks, columns, types) ==
    SqlParse(toks, columns, types, [c \in 1..Len(columns) |-> Null], 1).k = "err"

\* whether the row of position k is one the statement selects: "yes", "no"
\* or "maybe"
row_matches(toks, columns, types, row, k) ==
    TheOne({SqlEquals(row[c], types[c], v) :
               v \in {SqlParse(toks, columns, types, row, k)},
               c \in {SqlColIndex(columns, "ANO_EGRESO")}})

\* SELECT * FROM egresos_pacientes WHERE ANO_EGRESO=<year>; fetchone() is not
\* None: the set of the outcomes the call can have, "True", "False" or
\* "raises".  The year is pasted into the statement unquoted and SQLite reads
\* it as an expression.  A statement SQLite rejects when it prepares it
\* (missing table, missing column, text that is no expression) is an
\* OperationalError, caught: False.  Text after the ';' of a statement
\* SQLite accepts is a second statement, which the driver refuses with an
\* exception that is no OperationalError: it leaves the function.  Where the
\* model does not compute what the year does, any outcome the table allows
\* is possible.  With a token of the type "other" the statement may raise
\* before SQLite prepares it (a ':name' is a bound parameter without a
\* value).  Without the table or its column SQLite rejects what it prepares.
\* With them, a keyword can make the statement raise (LIMIT NULL) or return
\* a row from a table that holds none (UNION SELECT 2).
data_already_exists(t_exists, columns, types, rows, y) ==
    TheOne({
        IF \E i \in 1..Len(st.head) : st.head[i].type = "other"
        THEN {"False", "raises"}
             \cup (IF t_exists /\ HasColumn(columns, "ANO_EGRESO")
                   THEN {"True"} ELSE {})
        ELSE IF ~t_exists \/ ~HasColumn(columns, "ANO_EGRESO") THEN {"False"}
        ELSE IF ~SqlKnown(st.head) THEN {"False", "True", "raises"}
        ELSE IF statement_rejected(st.head, columns, types) THEN {"False"}
        ELSE IF ~TailIsBlank(st.tail) THEN {"raises"}
        ELSE TheOne({
                IF "yes" \in ms THEN {"True"}
                ELSE IF "maybe" \in ms THEN {"True", "False"}
                ELSE {"False"} :
                ms \in {{row_matches(st.head, columns, types, rows[k], k) :
                            k \in 1..Len(rows)}}}) :
        st \in {FirstStatement(SqlTokens(y))}})

\* the type to_sql declares for each column of a table it creates: BIGINT
\* for a column of integers and TEXT for a column that holds a text.  For a
\* column without cells the dtype decides; after the assignments of lines 86
\* to 90 an object column is int64 where the assignment replaces the column
\* (pandas before 2.0) and object where it writes into it (inplace).
to_sql_types(df, inplace) ==
    [c \in 1..Len(df.columns) |->
        IF Len(df.rows) > 0
        THEN IF \A k \in 1..Len(df.rows) : df.rows[k][c].kind = "int"
             THEN "BIGINT" ELSE "TEXT"
        ELSE IF df.dtypes[c] = "int64"
                \/ (df.dtypes[c] = "int64, or object in place" /\ ~inplace)
             THEN "BIGINT" ELSE "TEXT"]

\* DataFrame.to_sql(if_exists='append', index=False): whether SQLite accepts
\* its statements.  A missing table is created from the frame's columns, of
\* which there must be one and which must differ beyond case; a frame
\* without rows inserts nothing; an INSERT names the frame's columns, each
\* of which the table must have.
to_sql_accepts(t_exists, columns, df) ==
    IF ~t_exists
    THEN /\ Len(df.columns) > 0
         /\ \A i, j \in 1..Len(df.columns) :
               SameLabel(df.columns[i], df.columns[j]) => i = j
    ELSE \/ Len(df.rows) = 0
         \/ \A i \in 1..Len(df.columns) : HasColumn(columns, df.columns[i])

\* the columns of the table after to_sql: created from the frame when absent
to_sql_columns(t_exists, columns, df) ==
    IF t_exists THEN columns ELSE df.columns

\* the declared types of the table after to_sql
to_sql_table_types(t_exists, types, df, inplace) ==
    IF t_exists THEN types ELSE to_sql_types(df, inplace)

\* what SQLite stores for a value inserted into a column of the type: an
\* integer becomes its text in a TEXT column, a text that writes an integer
\* becomes that integer in a BIGINT column.  (A text that writes a number
\* with a fraction or an exponent is no cell of this model.)
StoredCell(cell, type) ==
    IF Affinity(type) = "TEXT"
    THEN IF cell.kind = "int" THEN StrCell(IntText(cell.n)) ELSE cell
    ELSE IF cell.kind = "str" /\ AsciiIntOk(cell.s)
         THEN IntCell(AsciiIntVal(cell.s)) ELSE cell

\* the rows to_sql inserts: matched to the table's columns by name, NULL for
\* a column the frame does not have, each value stored under the affinity of
\* its column
to_sql_rows(t_exists, columns, types, df, inplace) ==
    LET target == to_sql_columns(t_exists, columns, df)
        ttypes == to_sql_table_types(t_exists, types, df, inplace)
    IN  [k \in 1..Len(df.rows) |->
            [c \in 1..Len(target) |->
                IF HasColumn(df.columns, target[c])
                THEN StoredCell(df.rows[k][SqlColIndex(df.columns, target[c])],
                                ttypes[c])
                ELSE Null]]

ReportLimit == 100

\* the characters of this model in the order of their codes
Ascii ==
    <<"\t", "\n", VerticalTab, "\f", "\r", " ", "*", "+", "-", ".", "/">>
    \o Digits \o <<";", "=">> \o UpperLetters
    \o <<"_">> \o LowerLetters \o <<NextLine, NoBreakSpace>>

CharRank(c) == CHOOSE i \in 1..Len(Ascii) : Ascii[i] = c

\* memcmp order of two texts
RECURSIVE TextLess(_, _)
TextLess(a, b) ==
    IF Len(b) = 0 THEN FALSE
    ELSE IF Len(a) = 0 THEN TRUE
    ELSE IF a[1] = b[1] THEN TextLess(Tail(a), Tail(b))
    ELSE CharRank(a[1]) < CharRank(b[1])

\* SQLite's order of stored values: NULL, then numbers, then texts
CellRank(cell) ==
    IF cell.kind = "null" THEN 0 ELSE IF cell.kind = "int" THEN 1 ELSE 2

CellLessEq(a, b) ==
    \/ CellRank(a) < CellRank(b)
    \/ /\ CellRank(a) = CellRank(b)
       /\ \/ a = b
          \/ a.kind = "int" /\ a.n < b.n
          \/ a.kind = "str" /\ TextLess(a.s, b.s)

\* the distinct values of ANO_EGRESO, ascending, as SQLite's GROUP BY lists them
RECURSIVE SortedSeq(_)
SortedSeq(S) ==
    IF S = {} THEN <<>>
    ELSE LET m == CHOOSE x \in S : \A z \in S : CellLessEq(x, z)
         IN  <<m>> \o SortedSeq(S \ {m})

\* whether SQLite accepts the query of validate_data
group_count_accepts(t_exists, columns) ==
    t_exists /\ HasColumn(columns, "ANO_EGRESO")

\* SELECT ANO_EGRESO, count(*) FROM egresos_pacientes GROUP BY ANO_EGRESO:
\* one (value, count) pair per distinct stored value, NULL included
group_count(columns, rows) ==
    LET c == SqlColIndex(columns, "ANO_EGRESO")
        keys == SortedSeq({rows[k][c] : k \in 1..Len(rows)})
    IN  [g \in 1..Len(keys) |->
            <<keys[g], Cardinality({k \in 1..Len(rows) : rows[k][c] = keys[g]})>>]

\* rows[:100]
printed_rows(rows) == SubSeq(rows, 1, Min(ReportLimit, Len(rows)))

----------------------------------------------------------------------------
(* Inputs of the pipeline: command lines and CSV files *)

\* the 17 columns of a source file, in the order of the canonical list
ExpectedHeader ==
    <<"PERTENENCIA_ESTABLECIMIENTO_SALUD", "SEXO", "GRUPO_EDAD", "ETNIA",
      "GLOSA_PAIS_ORIGEN", "COMUNA_RESIDENCIA", "GLOSA_COMUNA_RESIDENCIA",
      "REGION_RESIDENCIA", "GLOSA_REGION_RESIDENCIA", "PREVISION",
      "GLOSA_PREVISION", "ANO_EGRESO", "DIAG1", "DIAG2", "DIAS_ESTADA",
      "CONDICION_EGRESO", "INTERV_Q">>

Y2019 == <<"2", "0", "1", "9">>
Y2020 == <<"2", "0", "2", "0">>

\* A row under header: ano in ANO_EGRESO, comuna in COMUNA_RESIDENCIA, "13"
\* in REGION_RESIDENCIA, and text in the other columns, of which the first
\* nstars hold the placeholder '*'.
MakeRow(header, nstars, ano, comuna) ==
    [i \in 1..Len(header) |->
        IF header[i] = "ANO_EGRESO" THEN ano
        ELSE IF header[i] = "COMUNA_RESIDENCIA" THEN comuna
        ELSE IF header[i] = "REGION_RESIDENCIA" THEN StrCell(<<"1", "3">>)
        ELSE IF Cardinality({j \in 1..i : header[j] \notin Range(IntColumns)})
                    <= nstars
             THEN Star
             ELSE StrCell(<<"v">>)]

CleanRow(y) == MakeRow(ExpectedHeader, 0, StrCell(y), StrCell(<<"7">>))
StarredRow(y, nstars) ==
    MakeRow(ExpectedHeader, nstars, StrCell(y), StrCell(<<"7">>))
\* one '*' only, but in COMUNA_RESIDENCIA: the row is retained and int() fails
WithheldComunaRow(y) == MakeRow(ExpectedHeader, 0, StrCell(y), Star)
\* more than half a row of '*', one of them in ANO_EGRESO
WithheldYearRow == MakeRow(ExpectedHeader, 10, Star, StrCell(<<"7">>))
\* a no-break space before the digits of COMUNA_RESIDENCIA
NoBreakComunaRow(y) ==
    MakeRow(ExpectedHeader, 0, StrCell(y), StrCell(<<NoBreakSpace, "7">>))

SampleRowSeqs ==
    { <<>>,
      <<CleanRow(Y2019)>>,
      <<CleanRow(Y2019), CleanRow(Y2019), CleanRow(Y2019)>>,
      <<StarredRow(Y2019, 10), CleanRow(Y2019)>>,
      <<StarredRow(Y2019, 10)>>,
      <<StarredRow(Y2019, 8), StarredRow(Y2019, 9)>>,
      <<CleanRow(Y2020)>>,
      <<CleanRow(Y2020), CleanRow(Y2019)>>,
      <<CleanRow(Y2019), WithheldComunaRow(Y2019)>>,
      <<WithheldYearRow>>,
      <<NoBreakComunaRow(Y2019)>> }

\* the 17 expected columns with ANO_EGRESO and SEXO in each other's place
SwappedHeader ==
    [i \in 1..Len(ExpectedHeader) |->
        IF ExpectedHeader[i] = "ANO_EGRESO" THEN "SEXO"
        ELSE IF ExpectedHeader[i] = "SEXO" THEN "ANO_EGRESO"
        ELSE ExpectedHeader[i]]

\* five columns, which the five first names of the canonical list rename
ShortHeader ==
    <<"ANO_EGRESO", "DIAG1", "COMUNA_RESIDENCIA", "REGION_RESIDENCIA", "X">>

\* a file as it is on disk: a header line and rows of texts
CsvFile(columns, rows) == [readable |-> TRUE, columns |-> columns, rows |-> rows]

NoFile == [readable |-> FALSE, columns |-> <<>>, rows |-> <<>>]

\* what may be on disk at a path: nothing readable, one of the sample files
\* of the expected header, or a file of another header: of five columns
\* (with a row that the filter drops, or one that it retains) or of the
\* swapped one
DiskChoices ==
    {NoFile}
    \cup {CsvFile(ExpectedHeader, rs) : rs \in SampleRowSeqs}
    \cup {CsvFile(ShortHeader, <<MakeRow(ShortHeader, 2, Star, StrCell(<<"7">>))>>),
          CsvFile(ShortHeader,
                  <<MakeRow(ShortHeader, 0, StrCell(Y2019), StrCell(<<"7">>))>>),
          CsvFile(SwappedHeader,
                  <<MakeRow(SwappedHeader, 0, StrCell(Y2019), StrCell(<<"7">>))>>)}

PathDir2019 == <<"d", "/", "e", "2", "0", "1", "9", ".", "c", "s", "v">>
Path2020 == <<"e", "2", "0", "2", "0", ".", "c", "s", "v">>
PathDotted2019 == <<"e", ".", "2", "0", "1", "9", ".", "c", "s", "v">>
PathTwoStatements == <<"1", "6", ";", "1", ".", "c", "s", "v">>

SamplePaths == {PathDir2019, Path2020, PathDotted2019, PathTwoStatements}

ShortOptionF == <<"-", "f">>
LongOptionFile == <<"-", "-", "f", "i", "l", "e">>
LongOptionFileEq == LongOptionFile \o <<"=">>
LongOptionPrefix == <<"-", "-", "f", "i">>
UnknownOption == <<"-", "x">>

\* command lines after the script name: sys.argv[1:], a list of words
ArgvChoices ==
    {<<>>, <<UnknownOption>>, <<ShortOptionF>>, <<LongOptionFile>>,
     <<PathDir2019>>, <<LongOptionFileEq>>,
     <<ShortOptionF, PathDir2019, LongOptionFileEq \o Path2020>>} \cup
    {<<ShortOptionF, p>> : p \in SamplePaths} \cup
    {<<ShortOptionF \o p>> : p \in SamplePaths} \cup
    {<<LongOptionFile, p>> : p \in SamplePaths} \cup
    {<<LongOptionFileEq \o p>> : p \in SamplePaths} \cup
    {<<LongOptionPrefix, p>> : p \in SamplePaths}

\* the name of the one long option, gnuOptions = ["file="] without its '='
LongName == <<"f", "i", "l", "e">>

\* getopt.getopt(argumentList, "f:", ["file="]): error tells whether it
\* raises getopt.error, values lists the arguments given to -f / --file.
\* Options are read up to the first word that is no option, or up to "--".
\* A long option is any prefix of "file", with its argument after '=' or in
\* the next word; the short option is -f, with its argument in the rest of
\* the word or in the next word; a missing argument and any other option
\* are errors.
RECURSIVE getopt(_)
getopt(args) ==
    LET Stop == [error |-> FALSE, values |-> <<>>]
        Fail == [error |-> TRUE, values |-> <<>>]
        With(optarg, rest) ==
            LET r == getopt(rest)
            IN  [error |-> r.error, values |-> <<optarg>> \o r.values]
    IN  IF Len(args) = 0 THEN Stop
        ELSE LET a == args[1]
                 rest == Tail(args)
             IN  IF ~StartsWith(a, <<"-">>) \/ a = <<"-">> \/ a = <<"-", "-">>
                 THEN Stop
                 ELSE IF StartsWith(a, <<"-", "-">>)
                      THEN LET body == SubSeq(a, 3, Len(a))
                               i == FirstIndex(body, "=")
                               opt == IF i = 0 THEN body
                                      ELSE SubSeq(body, 1, i - 1)
                           IN  IF ~StartsWith(LongName, opt) THEN Fail
                               ELSE IF i # 0
                                    THEN With(SubSeq(body, i + 1, Len(body)), rest)
                               ELSE IF Len(rest) = 0 THEN Fail
                               ELSE With(rest[1], Tail(rest))
                 ELSE IF a[2] # "f" THEN Fail
                 ELSE IF Len(a) > 2 THEN With(SubSeq(a, 3, Len(a)), rest)
                 ELSE IF Len(rest) = 0 THEN Fail
                 ELSE With(rest[1], Tail(rest))

\* whether parse_arguments prints the error and exits with status 2
getopt_error(args) == getopt(args).error

\* parse_arguments' loop: the value of the last -f / --file, '' when none
parse_arguments(args) ==
    LET values == getopt(args).values
    IN  IF Len(values) = 0 THEN <<>> ELSE values[Len(values)]

----------------------------------------------------------------------------
(* The pipeline, one action per call of __main__ *)

NoPrev == [valid |-> FALSE, file_path |-> <<>>, disk |-> NoFile,
           exit_code |-> -1, nrows |-> 0]

PreIdle == /\ p_in = EmptyFrame
           /\ p_thr = DefaultThreshold
           /\ p_out = [raised |-> "", df |-> EmptyFrame]
           /\ path_parts = <<>>

\* no run has happened: the database file holds no table
FreshProcess ==
    /\ run = 1
    /\ disk = NoFile
    /\ raw_data = EmptyFrame
    /\ exists = FALSE
    /\ table_exists = FALSE
    /\ table_columns = <<>>
    /\ table_types = <<>>
    /\ table_rows = <<>>
    /\ loaded_by = <<>>
    /\ out = <<>>
    /\ steps = <<>>
    /\ report = <<>>
    /\ exit_code = -1
    /\ raised = ""
    /\ prev = NoPrev

Init ==
    /\ pc = "parse_arguments"
    /\ file_path = <<>>
    /\ year = <<>>
    /\ FreshProcess
    /\ PreIdle

\* an uncaught exception in the function fn ends the process with status 1
Crash(fn) ==
    /\ pc' = "exited"
    /\ exit_code' = 1
    /\ raised' = fn

\* file_path = parse_arguments(); a getopt error prints it and exits with 2
ParseArguments ==
    /\ pc = "parse_arguments"
    /\ \E args \in ArgvChoices :
        /\ steps' = Append(steps, "parse_arguments")
        /\ IF getopt_error(args)
           THEN /\ out' = Append(out, "getopt.error")
                /\ pc' = "exited"
                /\ exit_code' = 2
                /\ UNCHANGED <<file_path, disk>>
           ELSE /\ file_path' = parse_arguments(args)
                /\ disk' \in (IF file_path' = <<>> THEN {NoFile} ELSE DiskChoices)
                /\ pc' = "create_db_engine"
                /\ UNCHANGED <<out, exit_code>>
    /\ UNCHANGED <<run, year, raw_data, exists, table_exists, table_columns,
                   table_types, table_rows, loaded_by, report, raised, prev,
                   pre_vars>>

\* `if file_path:` the branch taken once the engine is there
after_engine(path) ==
    IF path # <<>> THEN "extract_year_from_path" ELSE "validate_data"

\* engine = create_db_engine(...), and the else branch of `if file_path:`
CreateDbEngine ==
    /\ pc = "create_db_engine"
    /\ steps' = Append(steps, "create_db_engine")
    /\ pc' = after_engine(file_path)
    /\ out' = out \o <<"[INFO]: Connection Checked", "[INFO]: Database connection">>
                  \o (IF file_path # <<>> THEN <<>> ELSE <<"No path was provided">>)
    /\ UNCHANGED <<run, file_path, disk, year, raw_data, exists, table_exists,
                   table_columns, table_types, table_rows, loaded_by, report,
                   exit_code, raised, prev, pre_vars>>

\* year = extract_year_from_path(file_path)
ExtractYear ==
    /\ pc = "extract_year_from_path"
    /\ steps' = Append(steps, "extract_year_from_path")
    /\ out' = Append(out, "File Path")
    /\ year' = extract_year_from_path(file_path)
    /\ pc' = "load_data"
    /\ UNCHANGED <<run, file_path, disk, raw_data, exists, table_exists,
                   table_columns, table_types, table_rows, loaded_by, report,
                   exit_code, raised, prev, pre_vars>>

\* raw_data = load_data(file_path): pd.read_csv raises on an unreadable file
LoadData ==
    /\ pc = "load_data"
    /\ steps' = Append(steps, "load_data")
    /\ IF disk.readable
       THEN /\ raw_data' = read_csv(disk.columns, disk.rows)
            /\ out' = Append(out, "[INFO]: Load data as a pandas dataframe")
            /\ pc' = "data_already_exists"
            /\ UNCHANGED <<exit_code, raised>>
       ELSE /\ Crash("load_data")
            /\ UNCHANGED <<raw_data, out>>
    /\ UNCHANGED <<run, file_path, disk, year, exists, table_exists,
                   table_columns, table_types, table_rows, loaded_by, report,
                   prev, pre_vars>>

\* `if data_already_exists(...)`: the branch taken
after_check(found) == IF found THEN "validate_data" ELSE "preprocess_data"

\* if data_already_exists(engine, table_name, year): print(...) else: ...
CheckExists ==
    /\ pc = "data_already_exists"
    /\ steps' = Append(steps, "data_already_exists")
    /\ \E outcome \in data_already_exists(table_exists, table_columns,
                                           table_types, table_rows, year) :
          IF outcome = "raises"
          THEN /\ Crash("data_already_exists")
               /\ UNCHANGED <<exists, out>>
          ELSE /\ exists' = (outcome = "True")
               /\ pc' = after_check(exists')
               /\ out' = IF exists'
                         THEN Append(out, "The data already exists in the database.")
                         ELSE out
               /\ UNCHANGED <<exit_code, raised>>
    /\ UNCHANGED <<run, file_path, disk, year, raw_data, table_exists,
                   table_columns, table_types, table_rows, loaded_by, report,
                   prev, pre_vars>>

\* raw_data = preprocess_data(raw_data)
PreprocessData ==
    /\ pc = "preprocess_data"
    /\ steps' = Append(steps, "preprocess_data")
    /\ \E res \in {preprocess_data(raw_data, DefaultThreshold)} :
           IF res.raised = ""
           THEN /\ raw_data' = res.df
                /\ out' = Append(out, "[INFO]: Preprocess data")
                /\ pc' = "save_to_database"
                /\ UNCHANGED <<exit_code, raised>>
           ELSE /\ Crash("preprocess_data")
                /\ UNCHANGED <<raw_data, out>>
    /\ UNCHANGED <<run, file_path, disk, year, exists, table_exists,
                   table_columns, table_types, table_rows, loaded_by, report,
                   prev, pre_vars>>

\* save_to_database(raw_data, engine, table_name); inplace tells which of
\* the two ways of pandas the assignments of preprocess_data went
SaveToDatabase ==
    /\ pc = "save_to_database"
    /\ steps' = Append(steps, "save_to_database")
    /\ IF to_sql_accepts(table_exists, table_columns, raw_data)
       THEN /\ table_exists' = TRUE
            /\ table_columns' = to_sql_columns(table_exists, table_columns, raw_data)
            /\ \E inplace \in BOOLEAN :
                  /\ table_types' = to_sql_table_types(table_exists, table_types,
                                                       raw_data, inplace)
                  /\ table_rows' =
                         table_rows \o to_sql_rows(table_exists, table_columns,
                                                   table_types, raw_data, inplace)
            /\ loaded_by' = loaded_by \o [k \in 1..Len(raw_data.rows) |-> run]
            /\ out' = Append(out, "[INFO]: Loads data into DB")
            /\ pc' = "validate_data"
            /\ UNCHANGED <<exit_code, raised>>
       ELSE /\ Crash("save_to_database")
            /\ UNCHANGED <<table_exists, table_columns, table_types, table_rows,
                           loaded_by, out>>
    /\ UNCHANGED <<run, file_path, disk, year, raw_data, exists, report, prev,
                   pre_vars>>

\* validate_data(engine, table_name): the SELECT raises OperationalError when
\* the table is not there, and nothing catches it
ValidateData ==
    /\ pc = "validate_data"
    /\ steps' = Append(steps, "validate_data")
    /\ IF group_count_accepts(table_exists, table_columns)
       THEN /\ report' = printed_rows(group_count(table_columns, table_rows))
            /\ pc' = "exited"
            /\ exit_code' = 0
            /\ UNCHANGED raised
       ELSE /\ Crash("validate_data")
            /\ UNCHANGED report
    /\ UNCHANGED <<run, file_path, disk, year, raw_data, exists, table_exists,
                   table_columns, table_types, table_rows, loaded_by, out, prev,
                   pre_vars>>

\* the script is started again: a new process, the same database file
NextRun ==
    /\ pc = "exited"
    /\ run < MaxRuns
    /\ run' = run + 1
    /\ prev' = [valid |-> TRUE, file_path |-> file_path, disk |-> disk,
                exit_code |-> exit_code, nrows |-> Len(table_rows)]
    /\ pc' = "parse_arguments"
    /\ file_path' = <<>>
    /\ disk' = NoFile
    /\ year' = <<>>
    /\ raw_data' = EmptyFrame
    /\ exists' = FALSE
    /\ out' = <<>>
    /\ steps' = <<>>
    /\ report' = <<>>
    /\ exit_code' = -1
    /\ raised' = ""
    /\ UNCHANGED <<table_exists, table_columns, table_types, table_rows,
                   loaded_by, pre_vars>>

Next ==
    \/ ParseArguments
    \/ CreateDbEngine
    \/ ExtractYear
    \/ LoadData
    \/ CheckExists
    \/ PreprocessData
    \/ SaveToDatabase
    \/ ValidateData
    \/ NextRun

Spec == Init /\ [][Next]_vars

----------------------------------------------------------------------------
(* extract_year_from_path on its own, over paths <dir><name><YYYY>.csv *)

SeqsUpTo(S, n) == UNION {[1..k -> S] : k \in 0..n}

DirChars == {"d", ".", "/"}
NameChars == {"e", "_", ".", "7"}
YearDigits == {"0", "1", "9"}
CsvExtension == <<".", "c", "s", "v">>

\* a directory prefix: empty, or ending in the separator
Dirs == {d \in SeqsUpTo(DirChars, MaxDirLen) : d = <<>> \/ d[Len(d)] = "/"}
Names == SeqsUpTo(NameChars, MaxNameLen)
FourDigits == [1..YearLen -> YearDigits]

InitYear ==
    /\ pc = "year_input"
    /\ \E d \in Dirs, nm \in Names, y \in FourDigits :
        /\ path_parts = <<d, nm, y>>
        /\ file_path = d \o nm \o y \o CsvExtension
    /\ year = <<>>
    /\ FreshProcess
    /\ p_in = EmptyFrame
    /\ p_thr = DefaultThreshold
    /\ p_out = [raised |-> "", df |-> EmptyFrame]

YearOnly ==
    /\ pc = "year_input"
    /\ year' = extract_year_from_path(file_path)
    /\ pc' = "year_output"
    /\ UNCHANGED <<file_path, pipeline_vars, pre_vars>>

NextYear == YearOnly

SpecYear == InitYear /\ [][NextYear]_vars

----------------------------------------------------------------------------
(* preprocess_data on its own, over frames of several widths and thresholds *)

\* 17 columns, none of them called ANO_EGRESO
LowerCaseAnoHeader ==
    [i \in 1..Len(ExpectedHeader) |->
        IF ExpectedHeader[i] = "ANO_EGRESO" THEN "ano_egreso"
        ELSE ExpectedHeader[i]]

\* 17 columns, two of them called DIAG1
RepeatedHeader ==
    [i \in 1..Len(ExpectedHeader) |->
        IF ExpectedHeader[i] = "DIAG2" THEN "DIAG1" ELSE ExpectedHeader[i]]

\* ten columns: at thresholds such as 0.7 the product with a double is not
\* the product of the decimals
TenHeader ==
    <<"ANO_EGRESO", "COMUNA_RESIDENCIA", "REGION_RESIDENCIA", "A", "B", "C",
      "D", "E", "F", "G">>

PreHeaders ==
    {ExpectedHeader, SwappedHeader, LowerCaseAnoHeader, RepeatedHeader,
     ShortHeader, TenHeader, new_column_names}

StarLevels == {0, 3, 4, 7, 8, 9}

\* rows of texts at each level of '*', and rows with an integer cell, with a
\* no-break space before the digits, and with a '*' where an integer is due
PreRows(header) ==
    {MakeRow(header, k, StrCell(Y2019), StrCell(<<" ", "-", "7">>)) :
        k \in StarLevels}
    \cup {MakeRow(header, 0, IntCell(2019), IntCell(7)),
          MakeRow(header, 0, StrCell(Y2019), StrCell(<<NoBreakSpace, "7">>)),
          MakeRow(header, 0, Star, StrCell(<<"7">>)),
          MakeRow(header, 9, StrCell(Y2019), Star)}

PreFrames(header) ==
    {DataFrame(header, rs) : rs \in SeqsUpTo(PreRows(header), MaxPreRows)}

\* 0.0, 0.25, 0.5, 0.75 and 1.0, which a double holds exactly; 0.29 and 0.7,
\* which it does not; -0.01; nan and inf
Thresholds ==
    {Float(FALSE, 0, "0000000000000", 0),
     Float(FALSE, 1, "0000000000000", 0 - 2),
     DefaultThreshold,
     Float(FALSE, 1, "8000000000000", 0 - 1),
     Float(FALSE, 1, "0000000000000", 0),
     Float(FALSE, 1, "28f5c28f5c28f", 0 - 2),
     Float(FALSE, 1, "6666666666666", 0 - 1),
     Float(TRUE, 1, "47ae147ae147b", 0 - 7),
     NaN, Infinity}

InitPre ==
    /\ pc = "pre_input"
    /\ \E header \in PreHeaders : p_in \in PreFrames(header)
    /\ p_thr \in Thresholds
    /\ p_out = [raised |-> "", df |-> EmptyFrame]
    /\ path_parts = <<>>
    /\ file_path = <<>>
    /\ year = <<>>
    /\ FreshProcess

PreprocessOnly ==
    /\ pc = "pre_input"
    /\ p_out' = preprocess_data(p_in, p_thr)
    /\ pc' = "pre_output"
    /\ UNCHANGED <<file_path, year, pipeline_vars, p_in, p_thr, path_parts>>

NextPre == PreprocessOnly

SpecPre == InitPre /\ [][NextPre]_vars

----------------------------------------------------------------------------
(* data_already_exists on its own, over tables the pipeline leaves and texts
   that the last four characters of a file name can be *)

\* what ANO_EGRESO holds in the files saved before the check
StoredYears == {<<"1">>, <<"1", "6">>, <<"2", "0", "0", "0">>, Y2019}

StoredFiles ==
    {CsvFile(ExpectedHeader, rs) :
        rs \in SeqsUpTo({CleanRow(y) : y \in StoredYears}, MaxStoredRows) \ {<<>>}}
    \cup {CsvFile(ExpectedHeader, <<StarredRow(Y2019, 10)>>),
          CsvFile(SwappedHeader,
                  <<MakeRow(SwappedHeader, 0, StrCell(Y2019), StrCell(<<"7">>))>>)}

\* the table after load_data, preprocess_data and save_to_database of one
\* file into a database without the table
TableFrom(file, inplace) ==
    TheOne({[exists |-> TRUE,
             columns |-> to_sql_columns(FALSE, <<>>, df),
             types |-> to_sql_table_types(FALSE, <<>>, df, inplace),
             rows |-> to_sql_rows(FALSE, <<>>, <<>>, df, inplace)] :
               df \in {preprocess_data(read_csv(file.columns, file.rows),
                                       DefaultThreshold).df}})

StoredTables ==
    {[exists |-> FALSE, columns |-> <<>>, types |-> <<>>, rows |-> <<>>]}
    \cup {TableFrom(f, inplace) : f \in StoredFiles, inplace \in BOOLEAN}

YearChars == {"0", "1", "2", "9", "e", "x", "-"}

YearWords ==
    {<<"T", "R", "U", "E">>, <<"t", "r", "u", "e">>, <<"o", "i", "d">>,
     <<"S", "E", "X", "O">>, <<"N", "U", "L", "L">>, <<"+", "1", "6">>,
     <<" ", "1", "6">>, <<"1", "+", "1", "5">>,
     <<"\t", "1", "6">>, <<"1", "6", "\n">>, <<"1", "6", ";">>,
     <<"1", "6", ";", "1">>, <<"2", "a", "1", "9">>,
     <<"6", ";", VerticalTab>>, <<"6", ";", "-", "-">>}

\* whether the model computes what SQLite makes of the year on the tables of
\* StoredTables, whose columns are the canonical ones
IsComputed(y) ==
    \E toks \in {SqlTokens(y)} :
        /\ \A i \in 1..Len(toks) : toks[i].type # "other"
        /\ SqlKnown(FirstStatement(toks).head)

YearTexts == {y \in SeqsUpTo(YearChars, YearLen) \cup YearWords : IsComputed(y)}

InitExists ==
    /\ pc = "exists_input"
    /\ file_path = <<>>
    /\ year \in YearTexts
    /\ run = 1
    /\ disk = NoFile
    /\ raw_data = EmptyFrame
    /\ exists = FALSE
    /\ \E t \in StoredTables :
          /\ table_exists = t.exists
          /\ table_columns = t.columns
          /\ table_types = t.types
          /\ table_rows = t.rows
          /\ loaded_by = [k \in 1..Len(t.rows) |-> 0]
    /\ out = <<>>
    /\ steps = <<>>
    /\ report = <<>>
    /\ exit_code = -1
    /\ raised = ""
    /\ prev = NoPrev
    /\ PreIdle

\* exists = data_already_exists(engine, table_name, year)
ExistsOnly ==
    /\ pc = "exists_input"
    /\ \E outcome \in data_already_exists(table_exists, table_columns,
                                           table_types, table_rows, year) :
          /\ exists' = (outcome = "True")
          /\ raised' = IF outcome = "raises" THEN "data_already_exists" ELSE ""
    /\ steps' = Append(steps, "data_already_exists")
    /\ pc' = "exists_output"
    /\ UNCHANGED <<run, file_path, disk, year, raw_data, table_exists,
                   table_columns, table_types, table_rows, loaded_by, out,
                   report, exit_code, prev, pre_vars>>

NextExists == ExistsOnly

SpecExists == InitExists /\ [][NextExists]_vars

----------------------------------------------------------------------------
(* Claims about the pipeline, checked under Spec *)

Finished == pc = "exited"

Called(fn) == fn \in Range(steps)

LastCalled == IF steps = <<>> THEN "" ELSE steps[Len(steps)]

\* the cell of ANO_EGRESO in row k of the table
TableYear(k) == table_rows[k][SqlColIndex(table_columns, "ANO_EGRESO")]

\* this run was given the same path, holding the same file, as the one before
SameFileAgain ==
    /\ prev.valid
    /\ file_path # <<>>
    /\ file_path = prev.file_path
    /\ disk = prev.disk

\* C1: when the script is run twice in a row with the same file, the second
\* run appends nothing: the table has as many rows after it as before it.
C1_SecondLoadIsNoOp ==
    (Finished /\ SameFileAgain) => Len(table_rows) = prev.nrows

\* C2: all rows of the table that share one ANO_EGRESO value were appended
\* by a single run.
C2_YearLoadedByOneRun ==
    HasColumn(table_columns, "ANO_EGRESO") =>
        \A i, j \in 1..Len(table_rows) :
            TableYear(i) = TableYear(j) => loaded_by[i] = loaded_by[j]

\* C3: a run without -f / --file never raises, whatever the database holds:
\* it prints 'No path was provided', loads nothing, runs the report and
\* exits with status 0.
C3_NoFileNeverRaises ==
    (Finished /\ exit_code # 2 /\ file_path = <<>>) =>
        /\ exit_code = 0
        /\ raised = ""
        /\ "No path was provided" \in Range(out)
        /\ ~Called("save_to_database")
        /\ LastCalled = "validate_data"

\* C4: every run that gets past argument parsing ends with the report step,
\* whichever branch it took and after any append.
C4_ValidatorAlwaysLast ==
    (Finished /\ exit_code # 2) => LastCalled = "validate_data"

\* the rows of the file that hold at most half a row of '*' cells
RetainedOnDisk ==
    {k \in 1..Len(disk.rows) : 2 * StarCount(disk.rows[k]) <= Len(disk.columns)}

DiskCell(k, name) == disk.rows[k][ColIndex(disk.columns, name)]

\* this run started on a table without rows and was given a readable file in
\* the canonical column order whose rows all carry the year y
LoadsYearIntoEmptyTable(y) ==
    /\ Finished
    /\ prev.nrows = 0
    /\ file_path # <<>>
    /\ disk.readable
    /\ disk.columns = ExpectedHeader
    /\ \A k \in 1..Len(disk.rows) : DiskCell(k, "ANO_EGRESO") = StrCell(y)

\* C5: loading into a table without rows a file whose rows all carry the
\* year Y makes the report exactly one pair (Y, k), k the number of rows the
\* placeholder filter retains.
C5_ReportIsYearCount ==
    \A y \in {Y2019, Y2020} :
        LoadsYearIntoEmptyTable(y) =>
            report = <<<<IntCell(ParseInt(y)), Cardinality(RetainedOnDisk)>>>>

\* C8: the CSV file is read only after the existence check, and only when
\* the check reported the year absent.
C8_CheckBeforeLoad ==
    \A i \in 1..Len(steps) :
        steps[i] = "load_data" =>
            /\ \E j \in 1..(i - 1) : steps[j] = "data_already_exists"
            /\ ~exists

----------------------------------------------------------------------------
(* Claims about data_already_exists, checked under SpecExists *)

\* whether the table exists and holds a row whose ANO_EGRESO is the year:
\* the text y writes an integer, as int() reads one, and a row stores it
TableHoldsYear(y) ==
    /\ table_exists
    /\ HasColumn(table_columns, "ANO_EGRESO")
    /\ PyIntOk(y)
    /\ \E k \in 1..Len(table_rows) : TableYear(k) = IntCell(PyIntVal(y))

\* C9: data_already_exists returns, and returns true exactly when the table
\* exists and holds a row with ANO_EGRESO equal to the year.
C9_ExistenceCheck ==
    pc = "exists_output" => raised = "" /\ exists = TableHoldsYear(year)

----------------------------------------------------------------------------
(* Claims about preprocess_data, checked under SpecPre *)

Returned == pc = "pre_output" /\ p_out.raised = ""

\* a set of integers as an ascending sequence
RECURSIVE Ascending(_)
Ascending(S) ==
    IF S = {} THEN <<>>
    ELSE LET m == CHOOSE x \in S : \A z \in S : x <= z
         IN  <<m>> \o Ascending(S \ {m})

\* the rows of the input whose number of '*' cells is at most allowed
WithinAllowed(allowed) ==
    Ascending({k \in 1..Len(p_in.rows) : StarCount(p_in.rows[k]) <= allowed})

\* the integer a cell of an integer column is to hold after the call
Coerced(cell) ==
    IF cell.kind = "int" THEN cell ELSE IntCell(PyIntVal(cell.s))

\* the rows returned are the rows kept of the input, in their order and
\* with their cells, those of the three integer columns as integers
ReturnsRows(kept) ==
    /\ Len(p_out.df.rows) = Len(kept)
    /\ \A j \in 1..Len(kept) :
        \A c \in 1..Len(p_in.columns) :
            p_out.df.rows[j][c] =
                IF p_in.columns[c] \in Range(IntColumns)
                THEN Coerced(p_in.rows[kept[j]][c])
                ELSE p_in.rows[kept[j]][c]

\* floor(num_columns * threshold) of the numbers themselves: the product of
\* the column count and the value of the float, not rounded to a double
FloorOfProduct ==
    TheOne({IF p_thr.neg
            THEN 0 - IntegerPart(p) - (IF HasFraction(p) THEN 1 ELSE 0)
            ELSE IntegerPart(p) :
               p \in {ExactProduct(Len(p_in.columns), p_thr)}})

\* C6, as stated: preprocess_data drops a row exactly when its number of
\* '*' cells exceeds floor(num_columns * threshold); the rows retained keep
\* their order and their cells, the three integer columns holding the
\* integer their text writes.
C6_PlaceholderFilter ==
    pc = "pre_output" =>
        /\ p_out.raised = ""
        /\ \E kept \in {WithinAllowed(FloorOfProduct)} : ReturnsRows(kept)

\* C6, amended: whenever preprocess_data returns, it has dropped a row
\* exactly when its number of '*' cells exceeds int(num_columns * threshold)
\* as Python computes it (the product rounded to a double and cut toward
\* zero); the rows retained keep their order and their cells, the three
\* integer columns holding the integer their text writes.
C6_PlaceholderFilterWhenReturned ==
    Returned =>
        \E kept \in {WithinAllowed(allowed_stars(Len(p_in.columns), p_thr))} :
            ReturnsRows(kept)

\* ten columns at the threshold 0.7: the double product is 7.0 although 0.7
\* as a double is less than 7/10, so a row of 7 '*' is retained; a row of 8
\* is dropped, '*' in COMUNA_RESIDENCIA and all
C6_Witness ==
    /\ Returned
    /\ p_in.columns = TenHeader
    /\ p_thr = Float(FALSE, 1, "6666666666666", 0 - 1)
    /\ Len(p_in.rows) = 2
    /\ StarCount(p_in.rows[1]) = 7
    /\ StarCount(p_in.rows[2]) = 8
    /\ p_out.df.rows = <<CoerceColumns(p_in.columns, p_in.rows)[1]>>

\* the source has the 17 expected columns, in some order
ExpectedColumns ==
    /\ Len(p_in.columns) = Len(ExpectedHeader)
    /\ Range(p_in.columns) = Range(ExpectedHeader)

Occurrences(names, name) == Cardinality({i \in 1..Len(names) : names[i] = name})

\* C10, as stated: for a source with the 17 expected columns preprocess_data
\* returns a table of 17 columns, the i-th named by the i-th name of the
\* canonical list, and every name of the canonical list appears exactly
\* once.
C10_CanonicalSchema ==
    (pc = "pre_output" /\ ExpectedColumns) =>
        /\ p_out.raised = ""
        /\ Len(p_out.df.columns) = Len(ExpectedHeader)
        /\ \A i \in 1..Len(p_out.df.columns) :
               p_out.df.columns[i] = new_column_names[i]
        /\ \A i \in 1..Len(new_column_names) :
               Occurrences(p_out.df.columns, new_column_names[i]) = 1

\* C10, amended: whenever preprocess_data returns for a source with the 17
\* expected columns, the table returned has 17 columns, the i-th named by
\* the i-th name of the canonical list whatever it was called; each of the
\* first 17 names of the list appears exactly once and the 18th, PROCED,
\* does not appear.
C10_CanonicalSchemaFirst17 ==
    (Returned /\ ExpectedColumns) =>
        /\ Len(p_out.df.columns) = Len(ExpectedHeader)
        /\ \A i \in 1..Len(p_out.df.columns) :
               p_out.df.columns[i] = new_column_names[i]
        /\ \A i \in 1..Len(new_column_names) :
               Occurrences(p_out.df.columns, new_column_names[i])
                   = (IF i <= Len(ExpectedHeader) THEN 1 ELSE 0)

C10_Witness ==
    /\ Returned
    /\ p_in.columns = SwappedHeader
    /\ Len(p_out.df.rows) > 0
    /\ p_out.df.columns[2] = "SEXO"
    /\ p_out.df.rows[1][2] = IntCell(2019)

----------------------------------------------------------------------------
(* Claims about extract_year_from_path, checked under SpecYear *)

\* C7, as stated: for every path <dir><name><YYYY>.csv the year extracted
\* is YYYY.
C7_YearIsSuffix ==
    pc = "year_output" => year = path_parts[3]

\* C7, amended: for every path <dir><name><YYYY>.csv whose <name> holds no
\* '.', the year extracted is YYYY.
C7_YearIsSuffixOfUndottedName ==
    (pc = "year_output" /\ "." \notin Range(path_parts[2])) =>
        year = path_parts[3]

C7_Witness ==
    /\ pc = "year_output"
    /\ path_parts[1] = <<".", "/">>
    /\ path_parts[2] = <<"e", "_">>
    /\ year = <<"1", "9", "9", "0">>

====
